---- MODULE Spec2Model ----
(***************************************************************************)
(* A model of arr-monitor.py: the descriptor scan (get_open_files), the    *)
(* source matcher (find_matching_source, extract_episode_info), the        *)
(* episode cache, the per-transfer record (FileTransferInfo) and the       *)
(* polling loop of run_monitor that reconciles each scan with the tracked  *)
(* records.                                                                *)
(*                                                                         *)
(* Representation.                                                         *)
(*   - A Python str is a sequence of one-character strings, so that        *)
(*     str.lower, Path.suffix and the regular expressions are computed.    *)
(*   - A path is a record [dir, name]; Path.name is its name field.        *)
(*   - Optional[X] is <<>> for None and <<x>> for a value; an episode key  *)
(*     is <<>> (None) or the pair <<season, episode>>.                     *)
(*   - An insertion-ordered dict is a sequence of <<key, value>> pairs     *)
(*     with distinct keys, oldest insertion first.                         *)
(*   - A float that is a quotient of integers (speed, percent, eta) is a   *)
(*     reduced fraction <<numerator, denominator>>; rounding is not        *)
(*     modelled.                                                           *)
(*   - time.time() is an integer clock; one poll reads it once.            *)
(*   - A local variable that the code computes once and reads several      *)
(*     times is the parameter of a helper operator (named ...With or       *)
(*     ...Of), so that it is written once in the caller.                   *)
(***************************************************************************)
EXTENDS Integers, Sequences, FiniteSets, TLC

VARIABLES
    pid_list,       \* run_monitor's argument: the monitored pids, in order
    procs,          \* the /proc state: pid -> Gone, NoAccess or its descriptor table
    running,        \* TRUE until the while-loop of run_monitor breaks
    iteration,      \* run_monitor's iteration counter
    now,            \* the last value time.time() returned
    episode_cache,  \* run_monitor's episode_cache (ordered dict)
    current_files,  \* run_monitor's current_files of the last poll
    tracked_files,  \* run_monitor's tracked_files
    prev            \* history: tracked_files and episode_cache as the last
                    \* poll that scanned found them, and the records that
                    \* the polls before it dropped

vars == <<pid_list, procs, running, iteration, now, episode_cache,
          current_files, tracked_files, prev>>

\* ------------------------------------------------------------------ bounds

\* Polls a behaviour may take.
MaxPolls == 3
\* The largest file size a descriptor reports.
MaxSize == 12
\* The largest clock advance between two polls.
MaxDelta == 1

\* Config.EPISODE_CACHE_MAX_SIZE (1000 in the source), scaled down so that
\* eviction happens within the bounds.
EPISODE_CACHE_MAX_SIZE == 2

\* ------------------------------------------------------- program constants

ACCESS_MODE_READ == 0
ACCESS_MODE_WRITE == 1
ACCESS_MODE_READWRITE == 2

\* Config.TARGET_SIZE_EXPANSION_THRESHOLD = 1.1, as the fraction 11/10.
THRESHOLD_NUM == 11
THRESHOLD_DEN == 10

\* ------------------------------------------------------------ generic helpers

None == <<>>
Some(x) == <<x>>

Max(a, b) == IF a >= b THEN a ELSE b
Min(a, b) == IF a <= b THEN a ELSE b
Abs(a) == IF a < 0 THEN -a ELSE a

RECURSIVE Gcd(_, _)
Gcd(a, b) == IF b = 0 THEN a ELSE Gcd(b, a % b)

\* The float n / d (d > 0) as a reduced fraction.
Frac(n, d) ==
    LET g == Gcd(Abs(n), d) IN <<n \div g, d \div g>>

FracLeq(p, q) == p[1] * q[2] <= q[1] * p[2]
FracLess(p, q) == p[1] * q[2] < q[1] * p[2]

\* ------------------------------------------------------------------ strings

Digits == <<"0", "1", "2", "3", "4", "5", "6", "7", "8", "9">>
UpperCase == <<"A", "B", "C", "D", "E", "F", "G", "H", "I", "J", "K", "L", "M",
               "N", "O", "P", "Q", "R", "S", "T", "U", "V", "W", "X", "Y", "Z">>
LowerCase == <<"a", "b", "c", "d", "e", "f", "g", "h", "i", "j", "k", "l", "m",
               "n", "o", "p", "q", "r", "s", "t", "u", "v", "w", "x", "y", "z">>

IsDigit(c) == \E i \in 1..10 : Digits[i] = c
DigitVal(c) == (CHOOSE i \in 1..10 : Digits[i] = c) - 1
\* \s over the alphabet of the model, which has no line breaks.
IsSpace(c) == c \in {" ", "\t"}

\* str.lower() of one character.
LowerChar(c) ==
    IF \E i \in 1..26 : UpperCase[i] = c
    THEN LowerCase[CHOOSE i \in 1..26 : UpperCase[i] = c]
    ELSE c

\* str.lower()
lower(s) == [i \in 1..Len(s) |-> LowerChar(s[i])]

\* s[i..] starts with the literal w (i is 1-based).
StartsAt(s, i, w) ==
    /\ i >= 1
    /\ i + Len(w) - 1 <= Len(s)
    /\ \A k \in 1..Len(w) : s[i + k - 1] = w[k]

\* The index after the longest run of characters from i on that satisfy
\* IsDigit (i itself when there is none): the greedy \d* from i.
RECURSIVE DigitsEnd(_, _)
DigitsEnd(s, i) ==
    IF i <= Len(s) /\ IsDigit(s[i]) THEN DigitsEnd(s, i + 1) ELSE i

\* The greedy \s* from i.
RECURSIVE SpacesEnd(_, _)
SpacesEnd(s, i) ==
    IF i <= Len(s) /\ IsSpace(s[i]) THEN SpacesEnd(s, i + 1) ELSE i

\* int() of the decimal digits s[i..j-1].
RECURSIVE ParseInt(_, _, _, _)
ParseInt(s, i, j, acc) ==
    IF i >= j THEN acc ELSE ParseInt(s, i + 1, j, acc * 10 + DigitVal(s[i]))

int(s, i, j) == ParseInt(s, i, j, 0)

\* ------------------------------------------------- extract_episode_info

\* [Ss](\d+)[Ee](\d+) matched at position i: <<>> or <<season, episode>>.
\* The greedy \d+ cannot give back a digit: what follows it must be E or e.
MatchSxxEyy(s, i) ==
    IF ~(1 <= i /\ i <= Len(s) /\ s[i] \in {"S", "s"}) THEN <<>>
    ELSE LET a == i + 1
             b == DigitsEnd(s, a)
         IN  IF ~(b > a /\ b <= Len(s) /\ s[b] \in {"E", "e"}) THEN <<>>
             ELSE LET c == b + 1
                      d == DigitsEnd(s, c)
                  IN  IF d > c THEN <<int(s, a, b), int(s, c, d)>> ELSE <<>>

\* (\d+)[xX](\d+) matched at position i.
MatchNxM(s, i) ==
    LET b == DigitsEnd(s, i)
    IN  IF ~(1 <= i /\ b > i /\ b <= Len(s) /\ s[b] \in {"x", "X"}) THEN <<>>
        ELSE LET c == b + 1
                 d == DigitsEnd(s, c)
             IN  IF d > c THEN <<int(s, i, b), int(s, c, d)>> ELSE <<>>

\* [Ee]pisode\s*(\d+) matched at position p: <<>> or <<episode>>.
MatchEpisodeAt(s, p) ==
    IF ~(p <= Len(s) /\ s[p] \in {"E", "e"}
         /\ StartsAt(s, p + 1, <<"p", "i", "s", "o", "d", "e">>))
    THEN <<>>
    ELSE LET c == SpacesEnd(s, p + 7)
             d == DigitsEnd(s, c)
         IN  IF d > c THEN <<int(s, c, d)>> ELSE <<>>

\* [Ss]eason\s*(\d+).*[Ee]pisode\s*(\d+) matched at position i. The greedy
\* .* leaves the last place at or after the season digits where the episode
\* part matches.
MatchVerbose(s, i) ==
    IF ~(1 <= i /\ i <= Len(s) /\ s[i] \in {"S", "s"}
         /\ StartsAt(s, i + 1, <<"e", "a", "s", "o", "n">>))
    THEN <<>>
    ELSE LET a == SpacesEnd(s, i + 6)
             b == DigitsEnd(s, a)
             places == {p \in b..Len(s) : MatchEpisodeAt(s, p) /= <<>>}
         IN  IF b > a /\ places /= {}
             THEN LET p == CHOOSE q \in places : \A r \in places : r <= q
                  IN  <<int(s, a, b), MatchEpisodeAt(s, p)[1]>>
             ELSE <<>>

\* The least member of a set of positions, 0 when it is empty.
Leftmost(at) == IF at = {} THEN 0 ELSE CHOOSE i \in at : \A j \in at : i <= j

\* pattern.search: the match at the leftmost position where there is one
\* (no position matches at index 0).
SearchSxxEyy(s) ==
    MatchSxxEyy(s, Leftmost({i \in 1..Len(s) : MatchSxxEyy(s, i) /= <<>>}))

SearchNxM(s) ==
    MatchNxM(s, Leftmost({i \in 1..Len(s) : MatchNxM(s, i) /= <<>>}))

SearchVerbose(s) ==
    MatchVerbose(s, Leftmost({i \in 1..Len(s) : MatchVerbose(s, i) /= <<>>}))

\* The loop of extract_episode_info over the three search results, in the
\* order of EPISODE_PATTERNS: the first that matched.
FirstMatchOf(m1, m2, m3) ==
    IF m1 /= <<>> THEN m1
    ELSE IF m2 /= <<>> THEN m2
    ELSE IF m3 /= <<>> THEN m3
    ELSE None

\* A bug: the pattern NxM is tried before SxxEyy.
extract_episode_info_NxM_first(filename) ==
    FirstMatchOf(SearchNxM(filename), SearchSxxEyy(filename), SearchVerbose(filename))

\* extract_episode_info
extract_episode_info(filename) ==
    FirstMatchOf(SearchSxxEyy(filename), SearchNxM(filename), SearchVerbose(filename))

\* ----------------------------------------------------------- ordered dicts

EmptyMap == [k \in {} |-> 0]

\* key in dict
DictHas(d, k) == \E i \in 1..Len(d) : d[i][1] = k

\* dict[key]
DictGet(d, k) == d[CHOOSE i \in 1..Len(d) : d[i][1] = k][2]

\* dict[key] = value: an existing key keeps its place, a new one goes last.
DictSet(d, k, v) ==
    IF DictHas(d, k)
    THEN [i \in 1..Len(d) |-> IF d[i][1] = k THEN <<k, v>> ELSE d[i]]
    ELSE Append(d, <<k, v>>)

DictKeys(d) == {d[i][1] : i \in 1..Len(d)}

\* ------------------------------------------------------------ episode cache

\* A bug: the oldest key is popped only when the cache is over its limit.
CacheInsertOverLimit(cache, name, value) ==
    LET kept == IF Len(cache) > EPISODE_CACHE_MAX_SIZE THEN Tail(cache)
                ELSE cache
    IN  DictSet(kept, name, value)

\* The guarded insertion of find_matching_source: when the cache is at its
\* limit, pop the first key (the oldest insertion), then store the name.
CacheInsert(cache, name, value) ==
    LET kept == IF Len(cache) >= EPISODE_CACHE_MAX_SIZE THEN Tail(cache)
                ELSE cache
    IN  DictSet(kept, name, value)

\* A bug: a hit moves the entry to the young end, as a true LRU would.
CacheLookupRefresh(cache, name) ==
    IF DictHas(cache, name)
    THEN SelectSeq(cache, LAMBDA e : e[1] /= name) \o <<<<name, DictGet(cache, name)>>>>
    ELSE CacheInsert(cache, name, extract_episode_info(name))

\* A bug: a name cached without an episode key counts as not cached.
CacheLookupRetryingNone(cache, name) ==
    IF DictHas(cache, name) /\ DictGet(cache, name) /= None THEN cache
    ELSE CacheInsert(cache, name, extract_episode_info(name))

\* "if name not in episode_cache: ... episode_cache[name] = extract(name)"
CacheLookup(cache, name) ==
    IF DictHas(cache, name) THEN cache
    ELSE CacheInsert(cache, name, extract_episode_info(name))

\* ----------------------------------------------------- find_matching_source

\* A bug: the first loop compares the names as they are.
ExactMatchCaseSensitive(dest_filename, read_files) ==
    LET hits == {i \in 1..Len(read_files) : read_files[i][1] = dest_filename}
    IN  IF hits = {} THEN None
        ELSE Some(read_files[CHOOSE i \in hits : \A j \in hits : i <= j][2])

\* The first loop: the size of the first source whose lowered name equals
\* the lowered destination name, or None.
ExactMatch(dest_filename, read_files) ==
    LET dest_lower == lower(dest_filename)
        hits == {i \in 1..Len(read_files) : lower(read_files[i][1]) = dest_lower}
    IN  IF hits = {} THEN None
        ELSE Some(read_files[CHOOSE i \in hits : \A j \in hits : i <= j][2])

\* The second loop, from source i on: each source's key is looked up (and
\* cached) until one equals dest_ep. EpisodeMatchWith is the loop body for
\* source i, with the cache c1 as the lookup of that source's name left it.
RECURSIVE EpisodeMatch(_, _, _, _)
EpisodeMatchWith(read_files, i, dest_ep, c1) ==
    IF DictGet(c1, read_files[i][1]) = dest_ep
    THEN [result |-> Some(read_files[i][2]), cache |-> c1]
    ELSE EpisodeMatch(read_files, i + 1, dest_ep, c1)

EpisodeMatch(read_files, i, dest_ep, cache) ==
    IF i > Len(read_files) THEN [result |-> None, cache |-> cache]
    ELSE EpisodeMatchWith(read_files, i, dest_ep,
                          CacheLookup(cache, read_files[i][1]))

\* A bug: the sources are scanned also for a destination without a key.
MatchWithoutKeyGuard(dest_filename, read_files, cache, exact, c1) ==
    IF exact /= None THEN [result |-> exact, cache |-> cache]
    ELSE EpisodeMatch(read_files, 1, DictGet(c1, dest_filename), c1)

\* find_matching_source after its first loop returned exact, with the cache
\* c1 as the lookup of the destination name left it.
MatchWith(dest_filename, read_files, cache, exact, c1) ==
    IF exact /= None THEN [result |-> exact, cache |-> cache]
    ELSE IF DictGet(c1, dest_filename) /= None
    THEN EpisodeMatch(read_files, 1, DictGet(c1, dest_filename), c1)
    ELSE [result |-> None, cache |-> c1]

\* find_matching_source(dest_filename, read_files, episode_cache): the
\* returned Optional[int] and the cache as the call leaves it.
find_matching_source(dest_filename, read_files, cache) ==
    MatchWith(dest_filename, read_files, cache,
              ExactMatch(dest_filename, read_files),
              CacheLookup(cache, dest_filename))

\* ---------------------------------------------------------- FileTransferInfo

\* FileTransferInfo.__init__ at time t; target_size is an Optional[int].
FileTransferInfo(fd, filepath, position, size, target_size, source_filepath, t) ==
    LET target == IF target_size /= None THEN target_size[1] ELSE size
    IN  [fd |-> fd,
         filepath |-> filepath,
         source_filepath |-> source_filepath,
         position |-> position,
         size |-> size,
         target_size |-> target,
         initial_target |-> target,
         last_position |-> position,
         last_time |-> t,
         speed |-> <<0, 1>>,
         first_seen |-> t]

\* A bug: the target follows every size above it, without the threshold.
ExceedsThresholdNoBand(actual_position, target_size) ==
    actual_position > target_size

\* A bug: the target follows every size that differs from it.
ExceedsThresholdAnySize(actual_position, target_size) ==
    actual_position /= target_size

\* actual_position > self.target_size * 1.1, on integers.
ExceedsThreshold(actual_position, target_size) ==
    actual_position * THRESHOLD_DEN > target_size * THRESHOLD_NUM

\* FileTransferInfo._expand_target_size
expand_target_size(self, new_size) == [self EXCEPT !.target_size = new_size]

\* A bug: the speed is computed from any byte delta, also a negative one.
UpdatedSpeedAnyDelta(self, actual_position, time_delta) ==
    IF time_delta > 0
    THEN Frac(actual_position - self.last_position, time_delta)
    ELSE self.speed

\* A bug: the speed falls to 0 when no bytes were written.
UpdatedSpeedOrZero(self, actual_position, time_delta) ==
    IF time_delta > 0 /\ actual_position - self.last_position > 0
    THEN Frac(actual_position - self.last_position, time_delta)
    ELSE <<0, 1>>

\* self.speed as update leaves it: recomputed only when time has passed and
\* bytes were written.
UpdatedSpeed(self, actual_position, time_delta) ==
    IF time_delta > 0 /\ actual_position - self.last_position > 0
    THEN Frac(actual_position - self.last_position, time_delta)
    ELSE self.speed

\* A bug: no size is invalid.
InvalidSizeNever(size) == FALSE

\* The validation of update: size < 0.
InvalidSize(size) == size < 0

\* FileTransferInfo.update(position, size) at time t.
update(self, position, size, t) ==
    IF InvalidSize(size) THEN self
    ELSE LET time_delta == t - self.last_time
             actual_position == size
             expanded == IF ExceedsThreshold(actual_position, self.target_size)
                         THEN expand_target_size(self, actual_position)
                         ELSE self
         IN  [expanded EXCEPT
                 !.speed = UpdatedSpeed(self, actual_position, time_delta),
                 !.last_position = actual_position,
                 !.position = actual_position,
                 !.size = size,
                 !.last_time = t]

\* A bug: the percentage is not clamped.
percent_unclamped(self) ==
    IF self.target_size > 0
    THEN Frac(self.position * 100, self.target_size)
    ELSE <<0, 1>>

\* FileTransferInfo.percent
percent(self) ==
    IF self.target_size > 0
    THEN LET pct == Frac(self.position * 100, self.target_size)
         IN  IF FracLess(pct, <<100, 1>>) THEN pct ELSE <<100, 1>>
    ELSE <<0, 1>>

\* A bug: the ETA is computed also when nothing remains.
eta_seconds_unguarded(self) ==
    IF self.speed[1] > 0
    THEN Some(Frac((self.target_size - self.position) * self.speed[2],
                   self.speed[1]))
    ELSE None

\* FileTransferInfo.eta_seconds: None or the fraction remaining / speed.
eta_seconds(self) ==
    IF self.speed[1] > 0 /\ self.target_size > self.position
    THEN Some(Frac((self.target_size - self.position) * self.speed[2],
                   self.speed[1]))
    ELSE None

\* ------------------------------------------------------------ get_open_files

\* IGNORE_EXTENSIONS
IGNORE_EXTENSIONS ==
    { <<".", "d", "b">>,
      <<".", "d", "b", "-", "w", "a", "l">>,
      <<".", "d", "b", "-", "s", "h", "m">>,
      <<".", "d", "b", "-", "j", "o", "u", "r", "n", "a", "l">>,
      <<".", "l", "o", "g">>,
      <<".", "t", "x", "t">>,
      <<".", "x", "m", "l">>,
      <<".", "j", "s", "o", "n">>,
      <<".", "c", "o", "n", "f">>,
      <<".", "z", "i", "p">>,
      <<".", "d", "l", "l">> }

\* Path.suffix of a file name: from its last dot on, unless that dot is the
\* first or the last character or there is none.
suffix(name) ==
    LET dots == {i \in 1..Len(name) : name[i] = "."}
    IN  IF dots = {} THEN <<>>
        ELSE LET i == CHOOSE d \in dots : \A e \in dots : e <= d
             IN  IF 1 < i /\ i < Len(name) THEN SubSeq(name, i, Len(name))
                 ELSE <<>>

\* A bug: the extension is compared as it is written.
should_ignore_file_as_written(filepath) == suffix(filepath.name) \in IGNORE_EXTENSIONS

\* should_ignore_file
should_ignore_file(filepath) == lower(suffix(filepath.name)) \in IGNORE_EXTENSIONS

\* access_mode = flags & 0o3
access_mode(flags) == flags % 4

\* A bug: the last read file of the size is taken, not the first.
LastSourceOfSize(read_files, target_size) ==
    LET hits == {i \in 1..Len(read_files) : read_files[i][2].size = target_size}
    IN  IF hits = {} THEN None
        ELSE Some(read_files[CHOOSE i \in hits : \A j \in hits : i >= j][2].path)

\* The source path both non-fallback branches record: the path of the first
\* read file, in insertion order, whose size equals target_size (None when
\* there is none).
FirstSourceOfSize(read_files, target_size) ==
    LET hits == {i \in 1..Len(read_files) : read_files[i][2].size = target_size}
    IN  IF hits = {} THEN None
        ELSE Some(read_files[CHOOSE i \in hits : \A j \in hits : i <= j][2].path)

\* max(info.size for info in read_files.values())
LargestSource(read_files) ==
    LET sizes == {read_files[i][2].size : i \in 1..Len(read_files)}
    IN  CHOOSE m \in sizes : \A n \in sizes : n <= m

\* A bug: the fallback without sources takes the file size as it is.
TargetSizeNoFloor(result, read_files, file_size) ==
    IF result /= None THEN result[1]
    ELSE IF Len(read_files) > 0
    THEN CHOOSE m \in {read_files[i][2].size : i \in 1..Len(read_files)} :
            \A i \in 1..Len(read_files) : read_files[i][2].size <= m
    ELSE file_size

\* target_size as the three branches after find_matching_source set it.
TargetSize(result, read_files, file_size) ==
    IF result /= None THEN result[1]
    ELSE IF Len(read_files) > 0 THEN LargestSource(read_files)
    ELSE Max(file_size, 1)

\* A bug: the largest-source branch attributes no source.
SourcePathOfMatchOnly(result, read_files, target_size) ==
    IF result /= None
    THEN FirstSourceOfSize(read_files, target_size)
    ELSE None

\* source_path as the three branches set it.
SourcePath(result, read_files, target_size) ==
    IF result /= None \/ Len(read_files) > 0
    THEN FirstSourceOfSize(read_files, target_size)
    ELSE None

\* A bug: a new record starts at position 0.
NewTransferAtZero(d, target_size, source_path, t) ==
    FileTransferInfo(d.fd, d.path, 0, d.size, Some(target_size), source_path, t)

\* The FileTransferInfo the write branch stores for descriptor d.
NewTransfer(d, target_size, source_path, t) ==
    FileTransferInfo(d.fd, d.path, d.size, d.size, Some(target_size), source_path, t)

\* The write branch after find_matching_source returned m: the record it
\* stores and the cache as the call left it.
WriteFileWith(d, read_files, m, t) ==
    [info |-> NewTransfer(d, TargetSize(m.result, read_files, d.size),
                          SourcePath(m.result, read_files,
                                     TargetSize(m.result, read_files, d.size)),
                          t),
     cache |-> m.cache]

\* read_files_sizes = {name: info.size for name, info in read_files.items()}
ReadFilesSizes(read_files) ==
    [i \in 1..Len(read_files) |-> <<read_files[i][1], read_files[i][2].size>>]

\* The body of the write branch for one descriptor d.
WriteFile(d, read_files, cache, t) ==
    WriteFileWith(d, read_files,
                  find_matching_source(d.path.name, ReadFilesSizes(read_files), cache),
                  t)

\* open_files[key] = info
MapSet(f, key, value) ==
    [k \in DOMAIN f \cup {key} |-> IF k = key THEN value ELSE f[k]]

\* The loop over fd_dir.iterdir(), from descriptor i of the table on.
\* A descriptor with ok = FALSE is one the loop skips before it reads the
\* flags (no fdinfo, unresolvable link, not a regular file, stat or fdinfo
\* error). ScanWrite is the write branch for descriptor d, which stored w.
RECURSIVE ScanFds(_, _, _, _, _, _)
ScanWrite(table, i, read_files, open_files, d, w, t) ==
    ScanFds(table, i + 1, read_files,
            MapSet(open_files, <<d.fd, d.path>>, w.info), w.cache, t)

ScanFd(table, i, read_files, open_files, cache, t, d) ==
    IF ~d.ok
    THEN ScanFds(table, i + 1, read_files, open_files, cache, t)
    ELSE IF access_mode(d.flags) = ACCESS_MODE_READ
    THEN ScanFds(table, i + 1,
                 DictSet(read_files, d.path.name, [size |-> d.size, path |-> d.path]),
                 open_files, cache, t)
    ELSE IF access_mode(d.flags) \in {ACCESS_MODE_WRITE, ACCESS_MODE_READWRITE}
            /\ ~should_ignore_file(d.path)
    THEN ScanWrite(table, i, read_files, open_files, d,
                   WriteFile(d, read_files, cache, t), t)
    ELSE ScanFds(table, i + 1, read_files, open_files, cache, t)

ScanFds(table, i, read_files, open_files, cache, t) ==
    IF i > Len(table) THEN [open_files |-> open_files, cache |-> cache]
    ELSE ScanFd(table, i, read_files, open_files, cache, t, table[i])

\* What /proc holds for a pid: status Gone (psutil.pid_exists is false),
\* NoAccess (the fd directory is missing or unreadable) or Open, with the
\* descriptor table in the order iterdir() yields it.
Gone == "Gone"
NoAccess == "NoAccess"
Open == "Open"

Proc(status, table) == [status |-> status, table |-> table]

\* get_open_files(pid, episode_cache=cache) at time t: the returned dict
\* (keyed by descriptor and path) and the cache as the call leaves it.
get_open_files(proc, cache, t) ==
    IF proc.status /= Open THEN [open_files |-> EmptyMap, cache |-> cache]
    ELSE ScanFds(proc.table, 1, <<>>, EmptyMap, cache, t)

\* ---------------------------------------------------------------- run_monitor

\* active_pids = [p for p in pid_list if psutil.pid_exists(p)]
ActivePids(pids, pr) == SelectSeq(pids, LAMBDA p : pr[p].status /= Gone)

\* The wholesale clear at the top of a poll.
ClearIfOversized(cache) ==
    IF Len(cache) > EPISODE_CACHE_MAX_SIZE THEN <<>> ELSE cache

\* current_files[(pid, file_key)] = file_info for every item of pid_files.
AddPidFiles(files, pid, pid_files) ==
    [k \in DOMAIN files \cup {<<pid, f[1], f[2]>> : f \in DOMAIN pid_files} |->
        IF k[1] = pid /\ <<k[2], k[3]>> \in DOMAIN pid_files
        THEN pid_files[<<k[2], k[3]>>]
        ELSE files[k]]

\* The loop over active_pids, from pid i on: current_files keyed by
\* <<pid, fd, path>>, and the cache threaded through the scans. ScanPid is
\* the loop body for pid i, whose scan returned r.
RECURSIVE ScanPids(_, _, _, _, _, _)
\* A bug: a pid whose scan fails ends the loop over the pids.
ScanPidUntilFailure(active, i, pr, files, r, t) ==
    IF pr[active[i]].status /= Open
    THEN [files |-> files, cache |-> r.cache]
    ELSE ScanPids(active, i + 1, pr, AddPidFiles(files, active[i], r.open_files),
                  r.cache, t)

\* A bug: the read descriptors of the first and last monitored pids are
\* sources for every pid.
ReadDescriptors(table) ==
    SelectSeq(table, LAMBDA d : d.ok /\ access_mode(d.flags) = ACCESS_MODE_READ)

ScanPidSharingSources(active, i, pr, files, r, t) ==
    ScanPids(active, i + 1, pr,
             AddPidFiles(files, active[i],
                 get_open_files(
                     [pr[active[i]] EXCEPT
                         !.table = ReadDescriptors(pr[active[1]].table)
                                   \o ReadDescriptors(pr[active[Len(active)]].table)
                                   \o @],
                     r.cache, t).open_files),
             r.cache, t)

ScanPid(active, i, pr, files, r, t) ==
    ScanPids(active, i + 1, pr, AddPidFiles(files, active[i], r.open_files),
             r.cache, t)

ScanPids(active, i, pr, files, cache, t) ==
    IF i > Len(active) THEN [files |-> files, cache |-> cache]
    ELSE ScanPid(active, i, pr, files, get_open_files(pr[active[i]], cache, t), t)

\* A bug: closed files are never dropped.
keys_to_remove_none(tracked, current) == {}

\* keys_to_remove = [k for k in tracked_files if k not in current_files]
keys_to_remove(tracked, current) == {k \in DOMAIN tracked : k \notin DOMAIN current}

\* A bug: a new record is updated with its own snapshot when it is adopted.
MergeUpdatingNew(tracked, current, t) ==
    [k \in DOMAIN tracked \cup DOMAIN current |->
        IF k \in DOMAIN current
        THEN IF k \in DOMAIN tracked
             THEN update(tracked[k], current[k].position, current[k].size, t)
             ELSE update(current[k], current[k].position, current[k].size, t)
        ELSE tracked[k]]

\* A bug: a tracked record takes the source path of every snapshot.
MergeRefreshingSource(tracked, current, t) ==
    [k \in DOMAIN tracked \cup DOMAIN current |->
        IF k \in DOMAIN current
        THEN IF k \in DOMAIN tracked
             THEN [update(tracked[k], current[k].position, current[k].size, t)
                      EXCEPT !.source_filepath = current[k].source_filepath]
             ELSE current[k]
        ELSE tracked[k]]

\* A bug: a key that is not tracked yet is not adopted.
MergeKnownOnly(tracked, current, t) ==
    [k \in DOMAIN tracked |->
        IF k \in DOMAIN current
        THEN update(tracked[k], current[k].position, current[k].size, t)
        ELSE tracked[k]]

\* tracked_files after the loop over current_files at time t: the records
\* whose key is in both are updated, the new ones adopted.
Merge(tracked, current, t) ==
    [k \in DOMAIN tracked \cup DOMAIN current |->
        IF k \in DOMAIN current
        THEN IF k \in DOMAIN tracked
             THEN update(tracked[k], current[k].position, current[k].size, t)
             ELSE current[k]
        ELSE tracked[k]]

\* del tracked_files[file_key] for every key to remove.
Remove(tracked, keys) == [k \in DOMAIN tracked \ keys |-> tracked[k]]

\* The loops that reconcile tracked_files with current_files at time t.
Reconcile(tracked, current, t) ==
    Remove(Merge(tracked, current, t), keys_to_remove(tracked, current))

\* History: the records that the polls so far have dropped, each as it was
\* when its key was last deleted: those in dropped and those that the poll
\* from before to after deleted.
Dropped(dropped, before, after) ==
    [k \in DOMAIN dropped \cup (DOMAIN before \ DOMAIN after) |->
        IF k \in DOMAIN before \ DOMAIN after THEN before[k] ELSE dropped[k]]

\* The part of a poll from the cache check on, with the scan of the active
\* pids done at time t.
PollWith(scan, t) ==
    /\ prev' = [tracked |-> tracked_files, cache |-> episode_cache,
                dropped |-> Dropped(prev.dropped, prev.tracked, tracked_files)]
    /\ now' = t
    /\ episode_cache' = scan.cache
    /\ current_files' = scan.files
    /\ tracked_files' = Reconcile(tracked_files, scan.files, t)

\* One iteration of the while-loop that is not ended by the quit key: the
\* loop breaks when no monitored pid exists, and otherwise scans every active
\* pid and reconciles. pr is what /proc holds for the monitored pids during
\* this iteration, dt the time since the last poll.
PollWithin(pr, dt, polls) ==
    /\ running
    /\ iteration < polls
    /\ iteration' = iteration + 1
    /\ procs' = pr
    /\ IF ActivePids(pid_list, pr) = <<>>
       THEN /\ running' = FALSE
            /\ UNCHANGED <<now, episode_cache, current_files, tracked_files, prev>>
       ELSE /\ PollWith(ScanPids(ActivePids(pid_list, pr), 1, pr, EmptyMap,
                                 ClearIfOversized(episode_cache), now + dt),
                        now + dt)
            /\ UNCHANGED running
    /\ UNCHANGED pid_list

Poll(pr, dt) == PollWithin(pr, dt, MaxPolls)

\* An iteration in which getch() returns q or Q: the loop breaks.
Quit ==
    /\ running
    /\ iteration < MaxPolls
    /\ iteration' = iteration + 1
    /\ running' = FALSE
    /\ UNCHANGED <<pid_list, procs, now, episode_cache, current_files,
                   tracked_files, prev>>

\* ------------------------------------------------------------ the environment

Sizes == {0} \cup ((MaxSize - 1)..MaxSize)
Deltas == 0..MaxDelta

\* "S01E02.mkv"
SrcName == <<"S", "0", "1", "E", "0", "2", ".", "m", "k", "v">>
\* "a.1x2.mkv"
DstName == <<"a", ".", "1", "x", "2", ".", "m", "k", "v">>

Path(dir, name) == [dir |-> dir, name |-> name]

Descriptor(fd, path, size, flags) ==
    [fd |-> fd, path |-> path, size |-> size, flags |-> flags, ok |-> TRUE]

\* The descriptors the monitored process of Spec opens: one read source,
\* empty or not, and one destination whose size varies.
SrcFd(size) == Descriptor("3", Path("/src", SrcName), size, ACCESS_MODE_READ)
DstFd(size) == Descriptor("4", Path("/dst", DstName), size, ACCESS_MODE_WRITE)

SrcSizes == {0, MaxSize - 2}

MainTables ==
    {<<>>}
    \cup {<<SrcFd(z)>> : z \in SrcSizes}
    \cup {<<DstFd(s)>> : s \in Sizes}
    \cup {<<SrcFd(z), DstFd(s)>> : z \in SrcSizes, s \in Sizes}
    \cup {<<DstFd(s), SrcFd(MaxSize - 2)>> : s \in Sizes}

MainProcs ==
    {Proc(Gone, <<>>), Proc(NoAccess, <<>>)} \cup {Proc(Open, tb) : tb \in MainTables}

\* What /proc may hold for the monitored pids, each entry one of options:
\* between two polls a process opens, closes and writes files, loses its fd
\* directory or exits.
Envs(options) == [DOMAIN procs -> options]

\* The state run_monitor starts its loop in, monitoring pids whose /proc
\* entries are drawn from options.
InitWith(pids, options) ==
    /\ pid_list = pids
    /\ procs \in [{pids[i] : i \in 1..Len(pids)} -> options]
    /\ running = TRUE
    /\ iteration = 0
    /\ now = 0
    /\ episode_cache = <<>>
    /\ current_files = EmptyMap
    /\ tracked_files = EmptyMap
    /\ prev = [tracked |-> EmptyMap, cache |-> <<>>, dropped |-> EmptyMap]

\* ---------------------------------------------------------- the specification

\* One monitored process with a source and a destination.
Init == InitWith(<<1>>, MainProcs)

Next ==
    \/ \E pr \in Envs(MainProcs), dt \in Deltas : Poll(pr, dt)
    \/ Quit

Spec == Init /\ [][Next]_vars

\* One monitored process whose destination may report a size below zero:
\* st_size of a regular file never is, and Spec keeps to that; SpecNeg gives
\* update the malformed size its first test is written for.
NegSizes == {-1} \cup Sizes

NegProcs ==
    {Proc(NoAccess, <<>>)}
    \cup {Proc(Open, <<DstFd(s)>>) : s \in NegSizes}
    \cup {Proc(Open, <<SrcFd(MaxSize - 2), DstFd(s)>>) : s \in NegSizes}

InitNeg == InitWith(<<1>>, NegProcs)

NextNeg == \E pr \in Envs(NegProcs), dt \in Deltas : Poll(pr, dt)

SpecNeg == InitNeg /\ [][NextNeg]_vars

\* Two monitored processes, each gone, unreadable, writing the destination,
\* reading the source, or reading the source and writing the destination,
\* polled at intervals of 1.
PidProcs ==
    {Proc(Gone, <<>>), Proc(NoAccess, <<>>),
     Proc(Open, <<DstFd(MaxSize)>>), Proc(Open, <<SrcFd(MaxSize - 2)>>),
     Proc(Open, <<SrcFd(MaxSize - 2), DstFd(MaxSize)>>)}

InitPids == InitWith(<<1, 2>>, PidProcs)

NextPids == \E pr \in Envs(PidProcs) : Poll(pr, 1)

SpecPids == InitPids /\ [][NextPids]_vars

\* One monitored process whose descriptor table does not change: up to
\* three descriptors, in any order, drawn from read sources that match the
\* destination by name, by episode or not at all (one of them with another
\* episode of the same season), and destinations with and without an
\* episode key.
\* "s01e02.MKV": equal to SrcName but for case
CaseName == <<"s", "0", "1", "e", "0", "2", ".", "M", "K", "V">>
\* "b.mkv": no episode key
PlainName == <<"b", ".", "m", "k", "v">>
\* "m.avi": no episode key
MovieName == <<"m", ".", "a", "v", "i">>

\* "S1E1", "S1E2", "S1E3"
EpName(i) == <<"S", "1", "E", Digits[i + 1]>>

ScanSizes == {0, MaxSize - 2, MaxSize}

\* The descriptor kinds of SpecScan, without their fd.
ScanKinds ==
    {[path |-> Path("/src", n), size |-> z, flags |-> ACCESS_MODE_READ] :
        n \in {CaseName, DstName, PlainName}, z \in ScanSizes}
    \cup {[path |-> Path("/src", EpName(1)), size |-> MaxSize,
           flags |-> ACCESS_MODE_READ]}
    \cup {[path |-> Path("/dst", n), size |-> z, flags |-> ACCESS_MODE_WRITE] :
            n \in {SrcName, MovieName}, z \in {0, MaxSize - 1}}

FdNames == <<"3", "4", "5">>

ScanTables ==
    UNION {{[i \in 1..n |-> Descriptor(FdNames[i], ks[i].path, ks[i].size, ks[i].flags)] :
                ks \in [1..n -> ScanKinds]} : n \in 1..3}

ScanProcs == {Proc(Open, tb) : tb \in ScanTables}

InitScan == InitWith(<<1>>, ScanProcs)

NextScan == Poll(procs, 1)

SpecScan == InitScan /\ [][NextScan]_vars

\* One monitored process that writes one or two destinations per poll and
\* reads nothing, so that each destination is one lookup of the episode
\* cache: three names with an episode key and one without.
CacheNames == <<EpName(1), EpName(2), EpName(3), MovieName>>

CacheDst(fd, name) == Descriptor(fd, Path("/dst", name), MaxSize, ACCESS_MODE_WRITE)

CacheTables ==
    {<<CacheDst("3", CacheNames[i])>> : i \in 1..4}
    \cup {<<CacheDst("3", CacheNames[i]), CacheDst("4", CacheNames[j])>> :
            i \in 1..4, j \in 1..4}

CacheProcs == {Proc(Open, tb) : tb \in CacheTables}

InitCache == InitWith(<<1>>, CacheProcs)

NextCache == \E pr \in Envs(CacheProcs) : Poll(pr, 1)

SpecCache == InitCache /\ [][NextCache]_vars

\* One monitored process that writes one destination and reads nothing, so
\* that the poll looks its name up in the episode cache. The names are one
\* to three of five tokens joined by ".", and one name with spaces.
\* "Show", "mkv", "S02E05", "3x07", "Season 1 Episode 10"
TokShow == <<"S", "h", "o", "w">>
TokMkv == <<"m", "k", "v">>
TokSxxEyy == <<"S", "0", "2", "E", "0", "5">>
TokNxM == <<"3", "x", "0", "7">>
TokVerbose ==
    <<"S", "e", "a", "s", "o", "n", " ", "1", " ", "E", "p", "i", "s", "o", "d", "e", " ", "1", "0">>
Tokens == <<TokShow, TokMkv, TokSxxEyy, TokNxM, TokVerbose>>

TokenSeqs == UNION {[1..n -> 1..Len(Tokens)] : n \in 1..3}

\* The tokens of ts joined by ".".
Join(ts) ==
    IF Len(ts) = 1 THEN Tokens[ts[1]]
    ELSE IF Len(ts) = 2 THEN Tokens[ts[1]] \o <<".">> \o Tokens[ts[2]]
    ELSE Tokens[ts[1]] \o <<".">> \o Tokens[ts[2]] \o <<".">> \o Tokens[ts[3]]

\* "Show Season 1 Episode 10.mkv"
SpacedName == TokShow \o <<" ">> \o TokVerbose \o <<".">> \o TokMkv

FileNames == {Join(ts) : ts \in TokenSeqs} \cup {SpacedName}

NameProcs == {Proc(Open, <<CacheDst("3", n)>>) : n \in FileNames}

InitNames == InitWith(<<1>>, NameProcs)

NextNames == \E dt \in Deltas : Poll(procs, dt)

SpecNames == InitNames /\ [][NextNames]_vars

\* One monitored process whose descriptor table does not change: up to
\* three descriptors of the files "b.LOG" and "m.avi", opened read-only,
\* write-only, read-write or with access mode 3, with and without the flag
\* O_LARGEFILE (0o100000), and two that the loop skips because they are not
\* regular files. What is read has one size and what is written another.
\* "b.LOG": an ignored extension in upper case
LogName == <<"b", ".", "L", "O", "G">>

ClassFlags == {0, 1, 2, 3, 32768, 32769}

ClassSize(flags) == IF flags % 4 = 0 THEN MaxSize - 2 ELSE MaxSize - 1

ClassKinds ==
    {[path |-> Path("/d", n), flags |-> f, ok |-> TRUE] :
        n \in {LogName, MovieName}, f \in ClassFlags}
    \cup {[path |-> Path("/d", MovieName), flags |-> 1, ok |-> FALSE],
          [path |-> Path("/d", LogName), flags |-> 0, ok |-> FALSE]}

ClassTables ==
    UNION {{[i \in 1..n |->
                [fd |-> FdNames[i], path |-> ks[i].path,
                 size |-> ClassSize(ks[i].flags), flags |-> ks[i].flags,
                 ok |-> ks[i].ok]] :
                ks \in [1..n -> ClassKinds]} : n \in 1..3}

ClassProcs == {Proc(Open, tb) : tb \in ClassTables}

InitClass == InitWith(<<1>>, ClassProcs)

NextClass == Poll(procs, 1)

SpecClass == InitClass /\ [][NextClass]_vars

\* One monitored process that stays alive and, per poll, has nothing open,
\* writes the destination, or reads the source and writes the destination,
\* polled once more than MaxPolls: a destination can be adopted, updated,
\* closed and opened again under the same descriptor number.
ReopenPolls == MaxPolls + 1

ReopenTables ==
    {<<>>}
    \cup {<<DstFd(s)>> : s \in Sizes}
    \cup {<<SrcFd(MaxSize - 2), DstFd(s)>> : s \in Sizes}

ReopenProcs == {Proc(Open, tb) : tb \in ReopenTables}

InitReopen == InitWith(<<1>>, ReopenProcs)

NextReopen == \E pr \in Envs(ReopenProcs) : PollWithin(pr, 1, ReopenPolls)

SpecReopen == InitReopen /\ [][NextReopen]_vars

\* -------------------------------------------------------------------- claims

\* The keys that the last poll found tracked and updated.
Updated == DOMAIN prev.tracked \cap DOMAIN tracked_files

\* C1: for every tracked record, target_size never decreases: whatever size
\* (growing, shrinking, zero or negative) a poll reports for a key that stays
\* present, the target_size after the update is >= the one before it.
C1_TargetNeverDecreases ==
    \A k \in Updated :
        tracked_files[k].target_size >= prev.tracked[k].target_size

\* C1 witness: a record survived a poll that reported a smaller size, and
\* kept its target above it.
C1_Witness ==
    \E k \in Updated :
        /\ tracked_files[k].size < prev.tracked[k].size
        /\ tracked_files[k].target_size = prev.tracked[k].target_size
        /\ tracked_files[k].target_size > tracked_files[k].size

\* The last poll reported the snapshot of the poll before it: the same
\* keys with the same sizes.
SameSnapshot ==
    /\ DOMAIN current_files = DOMAIN prev.tracked
    /\ \A k \in DOMAIN current_files : current_files[k].size = prev.tracked[k].size

\* C2 as stated: reconciling the same unchanged snapshot twice in a row
\* yields throughput 0 for each record on the second reconciliation and
\* leaves each record's target size unchanged.
C2_Original ==
    SameSnapshot =>
        \A k \in DOMAIN tracked_files :
            /\ tracked_files[k].speed = <<0, 1>>
            /\ tracked_files[k].target_size = prev.tracked[k].target_size

\* C2 as amended: on the second reconciliation of an unchanged snapshot each
\* record keeps the throughput the first left it with, zero or not, and
\* keeps its target size, except that a record which the first
\* reconciliation created with a size above 1.1 times its target has its
\* target raised to that size.
C2_StaleThroughputKept ==
    SameSnapshot =>
        \A k \in DOMAIN tracked_files :
            /\ tracked_files[k].speed = prev.tracked[k].speed
            /\ IF prev.tracked[k].size * THRESHOLD_DEN
                    > prev.tracked[k].target_size * THRESHOLD_NUM
               THEN /\ prev.tracked[k].speed = <<0, 1>>
                    /\ prev.tracked[k].last_time = prev.tracked[k].first_seen
                    /\ prev.tracked[k].target_size = prev.tracked[k].initial_target
                    /\ tracked_files[k].target_size = tracked_files[k].size
               ELSE tracked_files[k].target_size = prev.tracked[k].target_size

\* C2 witness: the second reconciliation of an unchanged snapshot, later
\* than the first, left a record with the throughput it had.
C2_Witness ==
    /\ SameSnapshot
    /\ \E k \in DOMAIN tracked_files :
          /\ tracked_files[k].speed[1] > 0
          /\ tracked_files[k].last_time > prev.tracked[k].last_time

\* C3: a key tracked after one poll and absent from the snapshot of the next
\* (descriptor closed, process gone, scan failed) is not tracked after that
\* poll's reconciliation.
C3_AbsentKeyRemoved ==
    \A k \in DOMAIN prev.tracked :
        k \notin DOMAIN current_files => k \notin DOMAIN tracked_files

\* C3 witness: the last poll dropped the key of a process that had exited
\* while it kept scanning another.
C3_Witness ==
    \E k \in DOMAIN prev.tracked :
        /\ k \notin DOMAIN current_files
        /\ k \notin DOMAIN tracked_files
        /\ procs[k[1]].status = Gone
        /\ running

\* C4 as stated: the target size of a tracked record is never 0.
C4_Original ==
    \A k \in DOMAIN tracked_files : tracked_files[k].target_size /= 0

\* C4 as amended: the target size of a tracked record is never negative, and
\* it is 0 only in a record that was created with target 0 from a source of
\* size 0, which it names: the fallback without sources gives at least 1 and
\* no update sets a target to 0.
C4_ZeroOnlyFromEmptySource ==
    \A k \in DOMAIN tracked_files :
        /\ tracked_files[k].target_size >= 0
        /\ tracked_files[k].target_size = 0 =>
              /\ tracked_files[k].initial_target = 0
              /\ tracked_files[k].source_filepath /= None

\* C4 witness: a record created with target 0 from an empty source went
\* through an update and still has target 0.
C4_Witness ==
    \E k \in Updated :
        /\ prev.tracked[k].target_size = 0
        /\ tracked_files[k].target_size = 0
        /\ tracked_files[k].source_filepath /= None

\* C5: for every tracked record in every reachable state, percent is within
\* [0, 100], also when the size exceeds the target and when the target is 0.
C5_PercentInRange ==
    \A k \in DOMAIN tracked_files :
        /\ percent(tracked_files[k])[2] > 0
        /\ 0 <= percent(tracked_files[k])[1]
        /\ percent(tracked_files[k])[1] <= 100 * percent(tracked_files[k])[2]

\* C5 witness: an updated record whose size exceeds its target shows 100.
C5_Witness ==
    \E k \in Updated :
        /\ tracked_files[k].position > tracked_files[k].target_size
        /\ tracked_files[k].target_size > 0
        /\ percent(tracked_files[k]) = <<100, 1>>

\* The descriptor table of the one process of SpecScan, as the last poll
\* scanned it, and what the single pass knows when it reaches descriptor i.
ScanTable == procs[1].table

IsRead(d) == access_mode(d.flags) = ACCESS_MODE_READ

Dests == {i \in DOMAIN ScanTable : ~IsRead(ScanTable[i])}

NameOf(i) == ScanTable[i].path.name

RecordOf(i) == current_files[<<1, ScanTable[i].fd, ScanTable[i].path>>]

SourcesBefore(i) == {j \in 1..(i - 1) : IsRead(ScanTable[j])}

\* The first and the last source before i that has the name of source j:
\* the first fixes the name's place in the order of the sources, the last
\* its size and path.
FirstOf(i, j) ==
    CHOOSE m \in SourcesBefore(i) :
        /\ NameOf(m) = NameOf(j)
        /\ \A n \in SourcesBefore(i) : NameOf(n) = NameOf(j) => m <= n

LatestOf(i, j) ==
    CHOOSE m \in SourcesBefore(i) :
        /\ NameOf(m) = NameOf(j)
        /\ \A n \in SourcesBefore(i) : NameOf(n) = NameOf(j) => n <= m

SizeSeen(i, j) == ScanTable[LatestOf(i, j)].size

ExactHits(i) == {j \in SourcesBefore(i) : lower(NameOf(j)) = lower(NameOf(i))}

EpisodeHits(i) ==
    {j \in SourcesBefore(i) :
        /\ extract_episode_info(NameOf(i)) /= None
        /\ extract_episode_info(NameOf(j)) = extract_episode_info(NameOf(i))}

FirstIn(hits) == CHOOSE j \in hits : \A n \in hits : j <= n

MaxSeen(i) ==
    CHOOSE z \in {SizeSeen(i, j) : j \in SourcesBefore(i)} :
        \A j \in SourcesBefore(i) : SizeSeen(i, j) <= z

\* The sources of the largest size, and the one whose name came first.
LargestSeen(i) == {j \in SourcesBefore(i) : SizeSeen(i, j) = MaxSeen(i)}

FirstLargest(i) ==
    CHOOSE j \in LargestSeen(i) :
        \A n \in LargestSeen(i) : FirstOf(i, j) <= FirstOf(i, n)

NoMatch(i) ==
    /\ SourcesBefore(i) /= {}
    /\ ExactHits(i) = {}
    /\ EpisodeHits(i) = {}

C8_NoSourceFallback ==
    (iteration >= 1 /\ \A j \in DOMAIN ScanTable : ~IsRead(ScanTable[j])) =>
        \A i \in Dests :
            /\ RecordOf(i).target_size
                  = (IF ScanTable[i].size >= 1 THEN ScanTable[i].size ELSE 1)
            /\ RecordOf(i).source_filepath = None

\* C8 witness: the first poll of a process without sources tracked an empty
\* destination with target 1 and a non-empty one with its size as target.
C8_Witness ==
    /\ iteration = 1
    /\ \A j \in DOMAIN ScanTable : ~IsRead(ScanTable[j])
    /\ \E i \in Dests :
          /\ ScanTable[i].size = 0
          /\ tracked_files[<<1, ScanTable[i].fd, ScanTable[i].path>>].target_size = 1
    /\ \E i \in Dests :
          /\ ScanTable[i].size > 1
          /\ tracked_files[<<1, ScanTable[i].fd, ScanTable[i].path>>].target_size
                = ScanTable[i].size

\* The names the last poll of SpecCache looked up, in order, and a bounded
\* FIFO of capacity EPISODE_CACHE_MAX_SIZE fed with them.
CacheLookups == [i \in DOMAIN procs[1].table |-> procs[1].table[i].path.name]

CachedNames(c) == {c[i][1] : i \in 1..Len(c)}

FifoStep(c, n) ==
    IF n \in CachedNames(c) THEN c
    ELSE Append(IF Len(c) < EPISODE_CACHE_MAX_SIZE THEN c
                ELSE SubSeq(c, 2, Len(c)),
                <<n, extract_episode_info(n)>>)

RECURSIVE FifoFold(_, _, _)
FifoFold(c, names, i) ==
    IF i > Len(names) THEN c ELSE FifoFold(FifoStep(c, names[i]), names, i + 1)

C10_NegativeSizeSkipped ==
    \A k \in DOMAIN prev.tracked \cap DOMAIN current_files :
        current_files[k].size < 0 => tracked_files[k] = prev.tracked[k]

\* C10 witness: a poll later than the record's last update reported a
\* negative size for a record with a throughput, and left it as it was.
C10_Witness ==
    \E k \in DOMAIN prev.tracked \cap DOMAIN current_files :
        /\ current_files[k].size < 0
        /\ prev.tracked[k].speed[1] > 0
        /\ prev.tracked[k].size >= 0
        /\ now > prev.tracked[k].last_time
        /\ tracked_files[k] = prev.tracked[k]

\* The keys whose record the last poll updated with a size that update
\* accepts.
Accepted == {k \in Updated : current_files[k].size >= 0}

\* C11: an update with a non-negative size s of a record with target t
\* leaves the target t when s is not greater than 1.1 times t, and sets it
\* to exactly s otherwise; a size with t < s <= 1.1 t leaves the target
\* below the size.
C11_ExpansionThreshold ==
    \A k \in Accepted :
        IF current_files[k].size * THRESHOLD_DEN
              > prev.tracked[k].target_size * THRESHOLD_NUM
        THEN tracked_files[k].target_size = current_files[k].size
        ELSE tracked_files[k].target_size = prev.tracked[k].target_size

\* C11 witness: an update with a size above the target and within the
\* threshold left the target below the size.
C11_Witness ==
    \E k \in Accepted :
        /\ current_files[k].size > prev.tracked[k].target_size
        /\ prev.tracked[k].target_size > 0
        /\ tracked_files[k].target_size = prev.tracked[k].target_size
        /\ tracked_files[k].target_size < tracked_files[k].size

\* C12: in every tracked record position equals size: at creation, after
\* every accepted update, and after a skipped one.
C12_PositionIsSize ==
    \A k \in DOMAIN tracked_files :
        tracked_files[k].position = tracked_files[k].size

\* C12 witness: a record created at a size above 0 went through an update
\* to another size and holds that size as its position.
C12_Witness ==
    \E k \in Accepted :
        /\ prev.tracked[k].position > 0
        /\ current_files[k].size /= prev.tracked[k].size
        /\ tracked_files[k].size = current_files[k].size
        /\ tracked_files[k].position = current_files[k].size

\* The keys the last poll found in the snapshot and not tracked.
Adopted == DOMAIN current_files \ DOMAIN prev.tracked

\* C13: a key in the snapshot and not in the tracked map is added as a new
\* record whose position is the file size of the snapshot, whose throughput
\* is 0, and whose target size and source path are those the scan of this
\* poll produced for it.
C13_NewRecord ==
    \A k \in Adopted :
        /\ k \in DOMAIN tracked_files
        /\ tracked_files[k].position = current_files[k].size
        /\ tracked_files[k].speed = <<0, 1>>
        /\ tracked_files[k].target_size = current_files[k].target_size
        /\ tracked_files[k].source_filepath = current_files[k].source_filepath

\* C13 witness: a poll later than the first adopted a partly written file
\* that is larger than 1.1 times the size of its source.
C13_Witness ==
    \E k \in Adopted :
        /\ iteration >= 2
        /\ tracked_files[k].position > 0
        /\ tracked_files[k].source_filepath /= None
        /\ tracked_files[k].target_size > 0
        /\ tracked_files[k].position * THRESHOLD_DEN
              > tracked_files[k].target_size * THRESHOLD_NUM

\* C15: eta_seconds is available exactly when the throughput is above 0 and
\* the target size above the position, and is then
\* (target_size - position) / throughput.
C15_EtaDefined ==
    \A k \in DOMAIN tracked_files :
        IF tracked_files[k].speed[1] > 0
              /\ tracked_files[k].target_size > tracked_files[k].position
        THEN /\ eta_seconds(tracked_files[k]) /= None
             /\ eta_seconds(tracked_files[k])[1][2] > 0
             /\ eta_seconds(tracked_files[k])[1][1] * tracked_files[k].speed[1]
                   = (tracked_files[k].target_size - tracked_files[k].position)
                        * tracked_files[k].speed[2]
                        * eta_seconds(tracked_files[k])[1][2]
        ELSE eta_seconds(tracked_files[k]) = None

\* C15 witness: a record with a throughput and bytes remaining has an ETA.
C15_Witness ==
    \E k \in DOMAIN tracked_files :
        /\ tracked_files[k].speed[1] > 0
        /\ tracked_files[k].target_size > tracked_files[k].position
        /\ tracked_files[k].position > 0
        /\ eta_seconds(tracked_files[k]) /= None

\* C20: an accepted update after a positive time and with a size above the
\* last position sets the throughput to (size - last position) / elapsed;
\* any other accepted update leaves the throughput as it was; the throughput
\* of a tracked record is never negative.
C20_Throughput ==
    /\ \A k \in Accepted :
          IF now - prev.tracked[k].last_time > 0
                /\ current_files[k].size - prev.tracked[k].last_position > 0
          THEN /\ tracked_files[k].speed[2] > 0
               /\ tracked_files[k].speed[1] * (now - prev.tracked[k].last_time)
                     = (current_files[k].size - prev.tracked[k].last_position)
                          * tracked_files[k].speed[2]
          ELSE tracked_files[k].speed = prev.tracked[k].speed
    /\ \A k \in DOMAIN tracked_files :
          tracked_files[k].speed[1] >= 0 /\ tracked_files[k].speed[2] > 0

\* C20 witness: an update after a positive time with bytes written replaced
\* the throughput of the record by another.
C20_Witness ==
    \E k \in Accepted :
        /\ now - prev.tracked[k].last_time > 0
        /\ current_files[k].size - prev.tracked[k].last_position > 0
        /\ tracked_files[k].speed[1] > 0
        /\ tracked_files[k].speed /= prev.tracked[k].speed
        /\ prev.tracked[k].speed[1] > 0

\* The keys of the destinations that process p of SpecPids holds open.
KeysOf(p) ==
    {<<p, procs[p].table[i].fd, procs[p].table[i].path>> :
        i \in {j \in DOMAIN procs[p].table :
                  access_mode(procs[p].table[j].flags) /= ACCESS_MODE_READ}}

\* C14: a monitored pid whose scan fails in a poll (process gone, descriptor
\* directory missing or unreadable) contributes nothing to that poll, and
\* the poll still scans and reconciles every other pid: their destinations
\* are tracked, those tracked before keep their record, and the loop goes
\* on as long as one monitored process exists.
C14_FailureIsolated ==
    iteration >= 1 =>
        /\ (\E p \in DOMAIN procs : procs[p].status /= Gone) => running
        /\ running =>
              \A p \in DOMAIN procs :
                  IF procs[p].status = Open
                  THEN \A k \in KeysOf(p) :
                          /\ k \in DOMAIN tracked_files
                          /\ k \in DOMAIN prev.tracked =>
                                /\ tracked_files[k].first_seen
                                      = prev.tracked[k].first_seen
                                /\ tracked_files[k].last_time = now
                  ELSE \A k \in DOMAIN current_files \cup DOMAIN tracked_files :
                          k[1] /= p

\* C14 witness: the scan of the first pid, which had a tracked record,
\* failed in a poll that updated the record of the second.
C14_Witness ==
    /\ running
    /\ procs[1].status = NoAccess
    /\ \E k \in DOMAIN prev.tracked : k[1] = 1
    /\ procs[2].status = Open
    /\ \E k \in KeysOf(2) :
          /\ k \in DOMAIN prev.tracked
          /\ k \in DOMAIN tracked_files
          /\ tracked_files[k].last_time > prev.tracked[k].last_time

\* What the order SxxEyy, NxM, verbose gives for the tokens ts joined by ".":
\* the numbers of the first kind of token that ts has, whatever its place.
HasToken(ts, tok) == \E i \in 1..Len(ts) : Tokens[ts[i]] = tok

ExpectedKey(ts) ==
    IF HasToken(ts, TokSxxEyy) THEN <<2, 5>>
    ELSE IF HasToken(ts, TokNxM) THEN <<3, 7>>
    ELSE IF HasToken(ts, TokVerbose) THEN <<1, 10>>
    ELSE None

\* "Show.S02E05.mkv", "Show.3x07.mkv", "Show Season 1 Episode 10.mkv",
\* "Show.mkv" and their keys.
Examples ==
    {<<Join(<<1, 3, 2>>), <<2, 5>>>>, <<Join(<<1, 4, 2>>), <<3, 7>>>>,
     <<SpacedName, <<1, 10>>>>, <<Join(<<1, 2>>), None>>}

\* C16: extract_episode_info tries SxxEyy, then NxM, then the verbose
\* pattern, and returns the numbers of the first pattern that matches, or
\* nothing: "Show.S02E05.mkv" gives (2, 5), "Show.3x07.mkv" (3, 7),
\* "Show Season 1 Episode 10.mkv" (1, 10) and "Show.mkv" nothing.
C16_PatternOrder ==
    \A i \in 1..Len(episode_cache) :
        /\ \A e \in Examples :
              episode_cache[i][1] = e[1] => episode_cache[i][2] = e[2]
        /\ \A ts \in TokenSeqs :
              episode_cache[i][1] = Join(ts) => episode_cache[i][2] = ExpectedKey(ts)

\* C16 witness: the key extracted from "3x07.S02E05.Season 1 Episode 10",
\* where NxM matches first in the name, is that of SxxEyy.
C16_Witness ==
    \E i \in 1..Len(episode_cache) :
        /\ episode_cache[i][1] = Join(<<4, 3, 5>>)
        /\ episode_cache[i][2] = <<2, 5>>

\* The source that matches destination i by name, or else by episode key,
\* and the sources that have its size.
Matched(i) ==
    IF ExactHits(i) /= {} THEN FirstIn(ExactHits(i)) ELSE FirstIn(EpisodeHits(i))

SameSizeAsMatched(i) ==
    {j \in SourcesBefore(i) : SizeSeen(i, j) = SizeSeen(i, Matched(i))}

FirstOfMatchedSize(i) ==
    CHOOSE j \in SameSizeAsMatched(i) :
        \A n \in SameSizeAsMatched(i) : FirstOf(i, j) <= FirstOf(i, n)

\* The read sources of the table, wherever they are in it.
Sources == {j \in DOMAIN ScanTable : IsRead(ScanTable[j])}

\* The table in the order p, and what a scan of it with the cache and the
\* clock of the last poll returns.
Reordered(p) == [i \in DOMAIN ScanTable |-> ScanTable[p[i]]]

Rescan(p) ==
    get_open_files(Proc(Open, Reordered(p)), ClearIfOversized(prev.cache), now).open_files

\* C17 as stated: the target size and the source path of a destination
\* depend only on the set of descriptors of the snapshot, not on the order
\* in which they are enumerated: a destination enumerated before its
\* matching source gets what it gets when enumerated after it. Stated for
\* the snapshots with one read source and the destinations of its name,
\* where the order of the sources among themselves plays no part.
C17_Original ==
    (iteration >= 1 /\ Cardinality(Sources) = 1) =>
        \A p \in Permutations(DOMAIN ScanTable) :
            \A i \in {d \in Dests :
                        \E j \in Sources : lower(NameOf(j)) = lower(NameOf(d))} :
                /\ <<ScanTable[i].fd, ScanTable[i].path>> \in DOMAIN Rescan(p)
                /\ Rescan(p)[<<ScanTable[i].fd, ScanTable[i].path>>].target_size
                      = RecordOf(i).target_size
                /\ Rescan(p)[<<ScanTable[i].fd, ScanTable[i].path>>].source_filepath
                      = RecordOf(i).source_filepath

\* C18 as stated: when the target size of a destination comes from a match
\* by name or by episode key, its source path is the path of the source
\* that matched, also when another source has the size of that source.
C18_Original ==
    iteration >= 1 =>
        \A i \in Dests :
            (ExactHits(i) /= {} \/ EpisodeHits(i) /= {}) =>
                RecordOf(i).source_filepath
                    = Some(ScanTable[LatestOf(i, Matched(i))].path)

\* C18 as amended: when the target size of a destination comes from a match
\* by name or by episode key, its source path is the path of the first
\* source, in the order the sources were collected, that has the size of
\* the source that matched: the source that matched when no source before
\* it has its size.
C18_FirstSourceOfMatchedSize ==
    iteration >= 1 =>
        \A i \in Dests :
            (ExactHits(i) /= {} \/ EpisodeHits(i) /= {}) =>
                /\ RecordOf(i).source_filepath
                      = Some(ScanTable[LatestOf(i, FirstOfMatchedSize(i))].path)
                /\ (\A j \in SameSizeAsMatched(i) :
                        FirstOf(i, Matched(i)) <= FirstOf(i, j)) =>
                      RecordOf(i).source_filepath
                          = Some(ScanTable[LatestOf(i, Matched(i))].path)

\* C18 witness: a destination matched by name by the second of two sources
\* of one size names the first.
C18_Witness ==
    /\ iteration >= 1
    /\ \E i \in Dests :
          /\ ExactHits(i) /= {}
          /\ \E j \in SameSizeAsMatched(i) :
                /\ FirstOf(i, j) < FirstOf(i, Matched(i))
                /\ RecordOf(i).source_filepath = Some(ScanTable[LatestOf(i, j)].path)
                /\ ScanTable[LatestOf(i, j)].path
                      /= ScanTable[LatestOf(i, Matched(i))].path
          /\ RecordOf(i).target_size = SizeSeen(i, Matched(i))

\* The destinations before which the scan looks the keys of the sources up:
\* those with an episode key and without a source of their name.
ScansSources(i) ==
    /\ ExactHits(i) = {}
    /\ extract_episode_info(NameOf(i)) /= None

\* C19: for a destination whose name no source has, find_matching_source
\* returns the size of the first source in order that has the episode key
\* of the destination, and no match when no source has it (the target is
\* then that of the fallbacks); for a destination without an episode key it
\* returns no match and looks no source up in the episode cache.
C19_EpisodeMatch ==
    iteration >= 1 =>
        /\ \A i \in Dests :
              ExactHits(i) = {} =>
                  RecordOf(i).target_size
                      = (IF EpisodeHits(i) /= {}
                         THEN SizeSeen(i, FirstIn(EpisodeHits(i)))
                         ELSE IF SourcesBefore(i) /= {} THEN MaxSeen(i)
                         ELSE IF ScanTable[i].size >= 1 THEN ScanTable[i].size
                         ELSE 1)
        /\ \A n \in CachedNames(episode_cache) \ CachedNames(prev.cache) :
              \/ \E i \in Dests : NameOf(i) = n
              \/ \E i \in Dests :
                    /\ ScansSources(i)
                    /\ \E j \in SourcesBefore(i) : NameOf(j) = n

\* C19 witness: a destination took the size of the first of the sources with
\* its episode key, which is neither the first nor the largest source, and
\* a source with another key of the same season came before it.
C19_Witness ==
    /\ iteration >= 1
    /\ \E i \in Dests :
          /\ ExactHits(i) = {}
          /\ EpisodeHits(i) /= {}
          /\ \E j \in SourcesBefore(i) :
                /\ j < FirstIn(EpisodeHits(i))
                /\ extract_episode_info(NameOf(j)) /= None
                /\ extract_episode_info(NameOf(j)) /= extract_episode_info(NameOf(i))
                /\ SizeSeen(i, j) > SizeSeen(i, FirstIn(EpisodeHits(i)))
          /\ RecordOf(i).target_size = SizeSeen(i, FirstIn(EpisodeHits(i)))

\* The table of the one process of SpecClass and the classes of the claim:
\* the flags that open for reading only and those that open for writing,
\* the destinations, and the sources the pass has met before descriptor i.
ClassTable == procs[1].table

ReadOnlyFlags == {0, 32768}
WritingFlags == {1, 2, 32769}

ClassDests ==
    {i \in DOMAIN ClassTable :
        /\ ClassTable[i].ok
        /\ ClassTable[i].flags \in WritingFlags
        /\ ClassTable[i].path.name /= LogName}

ClassSources(i) ==
    {j \in 1..(i - 1) : ClassTable[j].ok /\ ClassTable[j].flags \in ReadOnlyFlags}

ClassKey(i) == <<1, ClassTable[i].fd, ClassTable[i].path>>

FirstClassSource(i) == CHOOSE j \in ClassSources(i) : \A n \in ClassSources(i) : j <= n

\* C21: a read-only descriptor is a source whatever its extension; a
\* write-only or read-write descriptor of a regular file is a destination
\* unless its extension, in any case, is in the ignore set, and then it is
\* neither a destination nor a source. Here: the keys of the snapshot are
\* those of the destinations, and a destination has the source path and the
\* size of the first read-only descriptor before it, or no source.
C21_Classification ==
    iteration >= 1 =>
        /\ DOMAIN current_files = {ClassKey(i) : i \in ClassDests}
        /\ \A i \in ClassDests :
              IF ClassSources(i) = {}
              THEN /\ current_files[ClassKey(i)].source_filepath = None
                   /\ current_files[ClassKey(i)].target_size = ClassTable[i].size
              ELSE /\ current_files[ClassKey(i)].source_filepath
                         = Some(ClassTable[FirstClassSource(i)].path)
                   /\ current_files[ClassKey(i)].target_size
                         = ClassTable[FirstClassSource(i)].size

\* C21 witness: "b.LOG" read-only, "b.LOG" write-only and "m.avi"
\* read-write, in this order: the one destination is "m.avi", with the
\* first "b.LOG" as its source.
C21_Witness ==
    /\ iteration >= 1
    /\ Len(ClassTable) = 3
    /\ ClassTable[1].path.name = LogName /\ ClassTable[1].flags = 0
    /\ ClassTable[2].path.name = LogName /\ ClassTable[2].flags = 1
    /\ ClassTable[3].path.name = MovieName /\ ClassTable[3].flags = 2
    /\ DOMAIN current_files = {ClassKey(3)}
    /\ current_files[ClassKey(3)].source_filepath = Some(ClassTable[1].path)

\* The read descriptors of process p before its descriptor i, and the first
\* of them.
OwnSources(p, i) ==
    {j \in 1..(i - 1) : access_mode(procs[p].table[j].flags) = ACCESS_MODE_READ}

FirstOwnSource(p, i) == CHOOSE j \in OwnSources(p, i) : \A n \in OwnSources(p, i) : j <= n

PidKey(p, i) == <<p, procs[p].table[i].fd, procs[p].table[i].path>>

\* The source path and target size that process p alone gives its
\* destination i.
OwnMatch(p, i, r) ==
    IF OwnSources(p, i) = {}
    THEN /\ r.source_filepath = None
         /\ r.target_size = Max(procs[p].table[i].size, 1)
    ELSE /\ r.source_filepath = Some(procs[p].table[FirstOwnSource(p, i)].path)
         /\ r.target_size = procs[p].table[FirstOwnSource(p, i)].size

\* C22: the target size and source path of a destination open in a pid are
\* computed from the read descriptors of that pid in that poll only: a
\* source open only in another monitored pid, or seen only in an earlier
\* poll, does not count. The record a poll adopts has the same values.
C22_OwnSourcesOnly ==
    (running /\ iteration >= 1) =>
        \A p \in DOMAIN procs :
            procs[p].status = Open =>
                \A i \in DOMAIN procs[p].table :
                    access_mode(procs[p].table[i].flags) /= ACCESS_MODE_READ =>
                        /\ PidKey(p, i) \in DOMAIN current_files
                        /\ OwnMatch(p, i, current_files[PidKey(p, i)])
                        /\ PidKey(p, i) \in Adopted =>
                              OwnMatch(p, i, tracked_files[PidKey(p, i)])

\* C22 witness: process 1 has just opened the destination and reads
\* nothing, process 2 reads the matching source, which an earlier poll had
\* matched as well; the destination of process 1 has no source.
C22_Witness ==
    /\ running
    /\ procs[1].table = <<DstFd(MaxSize)>>
    /\ procs[2].table = <<SrcFd(MaxSize - 2)>>
    /\ PidKey(1, 1) \in Adopted
    /\ SrcName \in CachedNames(prev.cache)
    /\ tracked_files[PidKey(1, 1)].source_filepath = None
    /\ tracked_files[PidKey(1, 1)].target_size = MaxSize

\* C23: whatever was looked up in whatever polls, the episode cache holds at
\* most EPISODE_CACHE_MAX_SIZE entries, so the size check at the top of a
\* poll is false and the clear of the whole cache leaves it as it is.
C23_ClearNeverRuns ==
    /\ Len(episode_cache) <= EPISODE_CACHE_MAX_SIZE
    /\ ClearIfOversized(episode_cache) = episode_cache

\* C23 witness: a poll that started with a full cache kept all of it past
\* the size check, looked up one name that was not in it, and left a
\* full cache with that name in the place of the oldest.
C23_Witness ==
    /\ iteration >= 2
    /\ Len(prev.cache) = EPISODE_CACHE_MAX_SIZE
    /\ Len(CacheLookups) = 1
    /\ CacheLookups[1] \notin CachedNames(prev.cache)
    /\ Len(episode_cache) = EPISODE_CACHE_MAX_SIZE
    /\ prev.cache[1][1] \notin CachedNames(episode_cache)
    /\ \A i \in 2..EPISODE_CACHE_MAX_SIZE : episode_cache[i - 1] = prev.cache[i]

\* C24: after the reconciliation of every poll the keys of the tracked map
\* are exactly the keys of that poll's snapshot: every snapshot key is
\* tracked and no key outside the snapshot remains.
C24_TrackedKeysAreSnapshotKeys ==
    DOMAIN tracked_files = DOMAIN current_files

\* C24 witness: one poll dropped the key of one process and adopted the
\* key of the other.
C24_Witness ==
    /\ running
    /\ \E k \in DOMAIN prev.tracked : k \notin DOMAIN tracked_files
    /\ \E k \in Adopted : k \in DOMAIN tracked_files
    /\ tracked_files /= EmptyMap

\* A record without the fields that an update may change.
Frame(r) ==
    [r EXCEPT !.position = 0, !.size = 0, !.last_position = 0, !.last_time = 0,
              !.speed = <<0, 1>>, !.target_size = 0]

\* C25: for a key that stays tracked, a poll changes only position, size,
\* last position, last-update time, throughput and, by expansion to the
\* current size, the target size: source path, descriptor id, destination
\* path and first-seen time stay as they were, whatever source path and
\* target size the matcher computed for the key in this poll.
C25_UpdateFrame ==
    \A k \in Updated :
        /\ Frame(tracked_files[k]) = Frame(prev.tracked[k])
        /\ tracked_files[k].target_size
              \in {prev.tracked[k].target_size, current_files[k].size}

\* C25 witness: a destination first seen without a source is polled again
\* when the matching source is open: the snapshot names the source and its
\* size as target, the tracked record keeps no source and its own target.
C25_Witness ==
    \E k \in Updated :
        /\ prev.tracked[k].source_filepath = None
        /\ current_files[k].source_filepath /= None
        /\ current_files[k].target_size /= prev.tracked[k].target_size
        /\ tracked_files[k].source_filepath = None
        /\ tracked_files[k].target_size = prev.tracked[k].target_size
        /\ tracked_files[k].last_time > prev.tracked[k].last_time

\* The keys that the last poll adopted and an earlier poll had dropped.
Readopted == Adopted \cap DOMAIN prev.dropped

\* The descriptor of the table of process 1 that has key k.
DescriptorOf(k) == CHOOSE i \in DOMAIN procs[1].table : PidKey(1, i) = k

\* C26: a key that was tracked, then absent from the snapshot of a poll,
\* and is in the snapshot of a later poll has a fresh record after that
\* poll: throughput 0, position equal to the current size, first seen now,
\* target size and source path from the matching of that poll; nothing of
\* the dropped record carries over.
C26_ReadoptedIsFresh ==
    \A k \in Readopted :
        /\ tracked_files[k] = current_files[k]
        /\ tracked_files[k].speed = <<0, 1>>
        /\ tracked_files[k].position = procs[1].table[DescriptorOf(k)].size
        /\ tracked_files[k].size = procs[1].table[DescriptorOf(k)].size
        /\ tracked_files[k].last_position = tracked_files[k].position
        /\ tracked_files[k].first_seen = now
        /\ tracked_files[k].last_time = now
        /\ tracked_files[k].initial_target = tracked_files[k].target_size
        /\ OwnMatch(1, DescriptorOf(k), tracked_files[k])

\* C26 witness: the record that was dropped had a throughput and a target
\* expanded beyond the size of its source; the destination is open again,
\* without the source, and its record has throughput 0 and its own size as
\* target, below the expanded one.
C26_Witness ==
    \E k \in Readopted :
        /\ prev.dropped[k].speed[1] > 0
        /\ prev.dropped[k].target_size > prev.dropped[k].initial_target
        /\ prev.dropped[k].source_filepath /= None
        /\ tracked_files[k].speed = <<0, 1>>
        /\ tracked_files[k].source_filepath = None
        /\ tracked_files[k].target_size = tracked_files[k].size
        /\ tracked_files[k].target_size < prev.dropped[k].target_size
        /\ tracked_files[k].target_size > prev.dropped[k].initial_target

\* C27: every entry of the episode cache maps its filename to the value
\* extract_episode_info returns for it, an episode key or None, and no
\* filename has two entries; a poll that looks up only names that are
\* cached, with or without an episode key, leaves the cache as it is.
C27_CacheHoldsExtractedKeys ==
    /\ \A i \in 1..Len(episode_cache) :
          /\ episode_cache[i][2] = extract_episode_info(episode_cache[i][1])
          /\ \A j \in 1..Len(episode_cache) :
                episode_cache[j][1] = episode_cache[i][1] => j = i
    /\ (iteration >= 1
        /\ \A i \in DOMAIN CacheLookups : CacheLookups[i] \in CachedNames(prev.cache))
           => episode_cache = prev.cache

\* C27 witness: the cache is full and its oldest entry is a filename
\* without an episode key, cached as None; the poll looked up that name
\* only, and the cache is as it was.
C27_Witness ==
    /\ iteration >= 1
    /\ Len(prev.cache) = EPISODE_CACHE_MAX_SIZE
    /\ prev.cache[1] = <<MovieName, None>>
    /\ extract_episode_info(MovieName) = None
    /\ CacheLookups = <<MovieName>>
    /\ episode_cache = prev.cache
    /\ \E i \in 1..Len(episode_cache) : episode_cache[i][2] /= None

====
